---- MODULE Spec2Model ----
(***************************************************************************)
(* YT-Updater: the delimited-section editor of YT-Affiliate-Updater.py,    *)
(* the description updaters (YT-Affiliate-Updater.py, YT-Updater.py) and   *)
(* the backup run of backup_descriptions.py.                               *)
(*                                                                         *)
(* A Python str is a sequence of one-character strings.                    *)
(***************************************************************************)
EXTENDS Integers, Sequences, FiniteSets, TLC

VARIABLES
    description,        \* editor: the description the editor is called on
    affiliate_content,  \* editor: the content passed to add_affiliate_section
    pc,                 \* editor: which call has returned last
    arg,                \* editor: the description argument of the last call
    ret,                \* editor: the value the last call returned
    videos,             \* updater: the remote videos, video id -> snippet dict
    videos_before,      \* updater: the remote videos when the last call began
    call,               \* updater: the last call, its outcome and what it sent
    bpc,                \* backup: where the run of main / backup_videos stands
    run_no,             \* backup: how many runs have been started
    channel,            \* backup: the remote channel: its size and its version
    db_file,            \* backup: youtube_backups.db, what is committed
    db_conn,            \* backup: the tables as the open connection sees them
    listing,            \* backup: all_videos and next_page_token
    video_ids,          \* backup: video_ids of backup_videos
    counts,             \* backup: new_count, updated_count, error_count
    loop,               \* backup: i, video_details, the index into it, video_id
    clock,              \* backup: datetime.now()
    failures,           \* backup: how many requests and statements have failed
    last,               \* backup: the step taken last and how it ended
    audit               \* backup: what the run under way has done so far

editor_vars == <<description, affiliate_content, pc, arg, ret>>
updater_vars == <<videos, videos_before, call>>
backup_vars ==
    <<bpc, run_no, channel, db_file, db_conn, listing, video_ids, counts, loop, clock,
      failures, last, audit>>
vars == <<editor_vars, updater_vars, backup_vars>>

-----------------------------------------------------------------------------
(* Strings *)

NL == "\n"
SP == " "

\* The characters str.strip(), str.rstrip() and str.lstrip() remove.
Whitespace == {" ", "\n", "\t", "\r", "\f"}

DelimLen == 14
START_DELIMITER == [i \in 1..DelimLen |-> "~"]
END_DELIMITER == [i \in 1..DelimLen |-> "~"]

\* Python's None, and a returned str.
None == [tag |-> "None"]
Str(s) == [tag |-> "str", s |-> s]

\* The last call: the method and its arguments (content, title, tags), how
\* its fetch and its update request ended (sink is "not_called" when no
\* update request was made), what it returned ("raised" when an exception
\* left it), the item fetched, the body sent and the description computed.
CallRecord(op, video_id, content, fetch, sink, result, fetched, written, new_description, title, tags) ==
    [op |-> op, video_id |-> video_id, content |-> content, fetch |-> fetch,
     sink |-> sink, result |-> result, fetched |-> fetched, written |-> written,
     new_description |-> new_description, title |-> title, tags |-> tags]

NoCall == CallRecord("none", "", None, "", "not_called", "None", None, None, None, None, None)

\* init_database: the two tables, empty. videos maps a video_id to its row,
\* backup_runs is the sequence of its rows.
EmptyDatabase == [videos |-> <<>>, backup_runs |-> <<>>]

\* The locals of get_all_channel_videos and backup_videos before they are
\* assigned. token 0 is next_page_token None; video_id 0 is video_id unbound,
\* the video ids being 1, 2, ...
NoListing == [all_videos |-> <<>>, token |-> 0]
NoCounts == [new_count |-> 0, updated_count |-> 0, error_count |-> 0]
NoLoop == [i |-> 0, video_details |-> <<>>, k |-> 0, video_id |-> 0]
NoStep == [action |-> "none", outcome |-> "none"]

\* The history of a run that has done nothing yet: how many rows it has
\* added to backup_runs, the pages listed, the batches requested, whether a
\* listing request failed and which batch's fetch did (0: none), how many
\* documents the detail fetches returned, how many turns of the per-video
\* loop ended, how many of them wrote and committed, as an insert or as an
\* update, and the videos whose turn was counted as an error.
NoAudit == [recorded |-> 0, pages |-> <<>>, batches |-> <<>>, listing_failed |-> FALSE, batch_failed |-> 0, returned |-> 0, processed |-> 0, stored |-> 0, inserted |-> 0, updated |-> 0, errored |-> {}]

\* s[i-1:] of Python, with i counted from 1.
Tail_(s, i) == SubSeq(s, i, Len(s))

\* s.lstrip()
RECURSIVE lstrip(_)
lstrip(s) ==
    IF s # <<>> /\ Head(s) \in Whitespace THEN lstrip(Tail(s)) ELSE s

\* s.rstrip()
RECURSIVE rstrip(_)
rstrip(s) ==
    IF s # <<>> /\ s[Len(s)] \in Whitespace
    THEN rstrip(SubSeq(s, 1, Len(s) - 1))
    ELSE s

\* s.strip()
strip(s) == lstrip(rstrip(s))

\* The literal p stands in s at position i (re.escape makes the delimiters
\* literals).
LiteralAt(s, p, i) ==
    /\ i >= 1
    /\ i + Len(p) - 1 <= Len(s)
    /\ \A k \in 1..Len(p) : s[i + k - 1] = p[k]

\* The first position >= from where the literal p stands in s, 0 if none.
RECURSIVE FindLiteral(_, _, _)
FindLiteral(s, p, from) ==
    IF from + Len(p) - 1 > Len(s) THEN 0
    ELSE IF LiteralAt(s, p, from) THEN from
    ELSE FindLiteral(s, p, from + 1)

NoMatch == [found |-> FALSE]

\* re.search of START(.*?)END with re.DOTALL, scanning from position pos:
\* the engine tries each start position in turn; at a position where START
\* stands, the lazy group grows one character at a time until END stands.
\* start..end-1 is the whole match, gstart..gend-1 is group 1.
RECURSIVE re_search(_, _)
re_search(s, pos) ==
    LET i == FindLiteral(s, START_DELIMITER, pos) IN
    IF i = 0 THEN NoMatch
    ELSE LET j == FindLiteral(s, END_DELIMITER, i + Len(START_DELIMITER)) IN
         IF j = 0 THEN re_search(s, i + 1)
         ELSE [found |-> TRUE, start |-> i, gstart |-> i + Len(START_DELIMITER),
               gend |-> j, end |-> j + Len(END_DELIMITER)]

\* re.sub(pattern, '', s, flags=re.DOTALL): every non-overlapping match,
\* left to right, is replaced by the empty string.
RECURSIVE re_sub_sections(_, _)
re_sub_sections(s, pos) ==
    LET m == re_search(s, pos) IN
    IF ~m.found THEN Tail_(s, pos)
    ELSE SubSeq(s, pos, m.start - 1) \o re_sub_sections(s, m.end)

\* re.sub(r'\n{3,}', '\n\n', s): run counts the newlines of the run being
\* read; a run of three or more is written as two.
RECURSIVE re_sub_newlines(_, _)
re_sub_newlines(s, run) ==
    IF s = <<>> THEN <<>>
    ELSE IF Head(s) = NL
         THEN (IF run < 2 THEN <<NL>> ELSE <<>>) \o re_sub_newlines(Tail(s), run + 1)
         ELSE <<Head(s)>> \o re_sub_newlines(Tail(s), 0)

-----------------------------------------------------------------------------
(* The section editor *)

\* The last position where the literal p stands in s at or after from, 0 if none.
RECURSIVE FindLastLiteral(_, _, _, _)
FindLastLiteral(s, p, from, k) ==
    IF k < from THEN 0
    ELSE IF LiteralAt(s, p, k) THEN k
    ELSE FindLastLiteral(s, p, from, k - 1)

\* extract_affiliate_section with a greedy group, START(.*)END: the section
\* runs to the last END marker.
extract_affiliate_section_greedy(d) ==
    LET i == FindLiteral(d, START_DELIMITER, 1)
        j == IF i = 0 THEN 0
             ELSE FindLastLiteral(d, END_DELIMITER, i + Len(START_DELIMITER), Len(d))
    IN  IF j # 0
        THEN Str(strip(SubSeq(d, i + Len(START_DELIMITER), j - 1)))
        ELSE None

extract_affiliate_section(d) ==
    LET match == re_search(d, 1) IN
    IF match.found
    THEN Str(strip(SubSeq(d, match.gstart, match.gend - 1)))
    ELSE None

split_description_around_affiliate_section(d) ==
    LET match == re_search(d, 1) IN
    IF match.found
    THEN [before |-> rstrip(SubSeq(d, 1, match.start - 1)),
          affiliate |-> Str(strip(SubSeq(d, match.gstart, match.gend - 1))),
          after |-> lstrip(Tail_(d, match.end))]
    ELSE [before |-> rstrip(d), affiliate |-> None, after |-> <<>>]

\* remove_affiliate_section with re.sub(..., count=1): only the first
\* section is removed.
remove_affiliate_section_first_only(d) ==
    LET m == re_search(d, 1)
        cleaned == IF m.found THEN SubSeq(d, 1, m.start - 1) \o Tail_(d, m.end) ELSE d
    IN  re_sub_newlines(strip(cleaned), 0)

\* remove_affiliate_section without the strip() of line 122.
remove_affiliate_section_unstripped(d) ==
    re_sub_newlines(re_sub_sections(d, 1), 0)

remove_affiliate_section(d) ==
    LET cleaned == re_sub_sections(d, 1) IN
    re_sub_newlines(strip(cleaned), 0)

\* add_affiliate_section that strips the old section and appends the new one
\* at the very end of the description.
add_affiliate_section_append(d, content) ==
    remove_affiliate_section(d)
        \o <<NL, NL>> \o START_DELIMITER \o <<NL>> \o content \o <<NL>> \o END_DELIMITER

add_affiliate_section(d, content) ==
    LET parts == split_description_around_affiliate_section(d)
        affiliate_section ==
            <<NL, NL>> \o START_DELIMITER \o <<NL>> \o content \o <<NL>> \o END_DELIMITER
        new_description == parts.before \o affiliate_section
    IN  IF parts.after # <<>>
        THEN new_description \o <<NL, NL>> \o parts.after
        ELSE new_description

-----------------------------------------------------------------------------
(* The editor's inputs: descriptions and contents built from a few pieces, *)
(* a delimiter line among them.                                            *)

MaxBodyPieces == 5
MaxContentPieces == 1

Pieces == {START_DELIMITER, <<NL>>, <<SP>>, <<"a">>}

RECURSIVE Texts(_)
Texts(n) ==
    IF n = 0 THEN {<<>>}
    ELSE LET shorter == Texts(n - 1) IN
         shorter \cup {s \o p : s \in shorter, p \in Pieces}

Bodies == Texts(MaxBodyPieces)
Contents == Texts(MaxContentPieces)

\* The parts of the state a specification does not use.
EditorUnused ==
    /\ description = <<>>
    /\ affiliate_content = <<>>
    /\ pc = "input"
    /\ arg = <<>>
    /\ ret = None

UpdaterUnused ==
    /\ videos = <<>>
    /\ videos_before = <<>>
    /\ call = NoCall

BackupUnused ==
    /\ bpc = "idle"
    /\ run_no = 0
    /\ channel = [size |-> 0, version |-> 1]
    /\ db_file = EmptyDatabase
    /\ db_conn = EmptyDatabase
    /\ listing = NoListing
    /\ video_ids = <<>>
    /\ counts = NoCounts
    /\ loop = NoLoop
    /\ clock = 0
    /\ failures = 0
    /\ last = NoStep
    /\ audit = NoAudit

InitEditor ==
    /\ description \in Bodies
    /\ affiliate_content = <<>>
    /\ pc = "input"
    /\ arg = <<>>
    /\ ret = None
    /\ UpdaterUnused
    /\ BackupUnused

Extract ==
    /\ pc = "input"
    /\ arg' = description
    /\ ret' = extract_affiliate_section(description)
    /\ pc' = "extract"
    /\ UNCHANGED <<description, affiliate_content, updater_vars, backup_vars>>

Split ==
    /\ pc = "input"
    /\ arg' = description
    /\ ret' = split_description_around_affiliate_section(description)
    /\ pc' = "split"
    /\ UNCHANGED <<description, affiliate_content, updater_vars, backup_vars>>

Remove ==
    /\ pc = "input"
    /\ arg' = description
    /\ ret' = Str(remove_affiliate_section(description))
    /\ pc' = "remove"
    /\ UNCHANGED <<description, affiliate_content, updater_vars, backup_vars>>

\* remove_affiliate_section called on what it returned.
RemoveAgain ==
    /\ pc = "remove"
    /\ arg' = ret.s
    /\ ret' = Str(remove_affiliate_section(ret.s))
    /\ pc' = "remove_again"
    /\ UNCHANGED <<description, affiliate_content, updater_vars, backup_vars>>

Add ==
    /\ pc = "input"
    /\ \E content \in Contents :
        /\ affiliate_content' = content
        /\ arg' = description
        /\ ret' = Str(add_affiliate_section(description, content))
    /\ pc' = "add"
    /\ UNCHANGED <<description, updater_vars, backup_vars>>

\* add_affiliate_section called on what it returned, with the same content.
AddAgain ==
    /\ pc = "add"
    /\ arg' = ret.s
    /\ ret' = Str(add_affiliate_section(ret.s, affiliate_content))
    /\ pc' = "add_again"
    /\ UNCHANGED <<description, affiliate_content, updater_vars, backup_vars>>

\* extract_affiliate_section called on what add_affiliate_section returned.
ExtractAdded ==
    /\ pc = "add"
    /\ arg' = ret.s
    /\ ret' = extract_affiliate_section(ret.s)
    /\ pc' = "extract_added"
    /\ UNCHANGED <<description, affiliate_content, updater_vars, backup_vars>>

NextEditor ==
    \/ Extract
    \/ Split
    \/ Remove
    \/ RemoveAgain
    \/ Add
    \/ AddAgain
    \/ ExtractAdded

SpecEditor == InitEditor /\ [][NextEditor]_vars

-----------------------------------------------------------------------------
(* The description updaters: YouTubeAffiliateManager of                    *)
(* YT-Affiliate-Updater.py and YouTubeVideoUpdater of YT-Updater.py.        *)
(* A snippet is a dict: a function from its keys to their values; the keys  *)
(* tags and defaultLanguage are there only when the video has them.         *)

VideoIds == {"v1", "v2"}
\* v0 is a video the source has no document for.
RequestIds == VideoIds \cup {"v0"}

\* How request.execute() can end: with a response, with an HttpError, or
\* with an exception that is no HttpError (a transport failure).
Outcomes == {"ok", "HttpError", "Exception"}

Raised == [tag |-> "raised"]
Item(snippet) == [tag |-> "item", snippet |-> snippet]
List(v) == [tag |-> "list", v |-> v]

\* dict.get(key, default)
Get(d, key, default) == IF key \in DOMAIN d THEN d[key] ELSE default

\* bool(d.get('defaultLanguage'))
HasLanguage(d) == "defaultLanguage" \in DOMAIN d /\ d["defaultLanguage"] # ""

SectionOf(content) ==
    START_DELIMITER \o <<NL>> \o content \o <<NL>> \o END_DELIMITER

InitialDescriptions ==
    { <<"a">>,
      <<"a", NL, NL>> \o SectionOf(<<"o">>) \o <<NL, NL, "w">> }

UpdaterContents == {<<"b">>}
NewDescriptions == {<<"n">>}
TitleArgs == {None, Str("New")}
TagsArgs == {None, List(<<"t9">>)}

InitUpdater ==
    /\ \E d1 \in InitialDescriptions, d2 \in {<<"a">>} :
        videos = [v \in VideoIds |->
            IF v = "v1"
            THEN [title |-> "T1", description |-> d1, tags |-> <<"t1", "t2">>,
                  categoryId |-> "22", defaultLanguage |-> "en", publishedAt |-> "2024"]
            ELSE [title |-> "T2", description |-> d2, categoryId |-> "10",
                  publishedAt |-> "2023"]]
    /\ videos_before = videos
    /\ call = NoCall
    /\ EditorUnused
    /\ BackupUnused

\* youtube.videos().list(part='snippet,status', id=video_id).execute(), as
\* get_video_details of YT-Affiliate-Updater.py wraps it: the item, None when
\* the response has no item or an HttpError was caught, Raised when another
\* exception leaves the method.
get_video_details(video_id, fetch) ==
    IF fetch = "Exception" THEN Raised
    ELSE IF fetch = "HttpError" THEN None
    ELSE IF video_id \notin DOMAIN videos THEN None
    ELSE Item(videos[video_id])

\* What became of the fetch, for the record of the call.
FetchResult(video_id, fetch) ==
    IF fetch # "ok" THEN fetch
    ELSE IF video_id \notin DOMAIN videos THEN "not_found"
    ELSE "ok"

\* youtube.videos().update(part='snippet', body=update_data).execute() that
\* succeeds: the video's snippet becomes the one sent; publishedAt is not
\* writable and stays.
youtube_update(update_data) ==
    [videos EXCEPT ![update_data.id] =
        [k \in DOMAIN update_data.snippet \cup {"publishedAt"} |->
            IF k = "publishedAt" THEN @["publishedAt"] ELSE update_data.snippet[k]]]

\* update_data built without the tags of the fetched snippet.
AffiliateUpdateData_NoTags(video_id, current_snippet, new_description) ==
    [id |-> video_id,
     snippet |-> [title |-> current_snippet["title"],
                  description |-> new_description,
                  categoryId |-> current_snippet["categoryId"],
                  tags |-> <<>>]]

\* update_data of update_video_affiliate_links.
AffiliateUpdateData(video_id, current_snippet, new_description) ==
    LET snippet == [title |-> current_snippet["title"],
                    description |-> new_description,
                    tags |-> Get(current_snippet, "tags", <<>>),
                    categoryId |-> current_snippet["categoryId"]]
    IN  [id |-> video_id,
         snippet |-> IF HasLanguage(current_snippet)
                     THEN [k \in DOMAIN snippet \cup {"defaultLanguage"} |->
                            IF k = "defaultLanguage"
                            THEN current_snippet["defaultLanguage"]
                            ELSE snippet[k]]
                     ELSE snippet]

\* The end of both updaters: the update request and what is returned.
\* catches_all says whether the method has an except Exception clause.
SendUpdate(op, video_id, content, fetched, update_data, title, tags, sink, catches_all) ==
    /\ videos' = IF sink = "ok" THEN youtube_update(update_data) ELSE videos
    /\ call' = CallRecord(op, video_id, content, "ok", sink,
                          IF sink = "ok" THEN "True"
                          ELSE IF sink = "HttpError" \/ catches_all THEN "False"
                          ELSE "raised",
                          Item(fetched),
                          [tag |-> "body", id |-> update_data.id,
                           snippet |-> update_data.snippet],
                          Str(update_data.snippet["description"]), title, tags)

update_video_affiliate_links(video_id, new_affiliate_content) ==
    \E fetch \in Outcomes :
        LET video_data == get_video_details(video_id, fetch) IN
        /\ videos_before' = videos
        /\ IF video_data = Raised \/ video_data = None
           THEN /\ videos' = videos
                /\ call' = CallRecord("update_video_affiliate_links", video_id,
                                      Str(new_affiliate_content),
                                      FetchResult(video_id, fetch), "not_called",
                                      IF video_data = Raised THEN "raised" ELSE "False",
                                      None, None, None, None, None)
           ELSE LET current_snippet == video_data.snippet
                    new_description ==
                        add_affiliate_section(current_snippet["description"],
                                              new_affiliate_content)
                IN  \E sink \in Outcomes :
                        SendUpdate("update_video_affiliate_links", video_id,
                                   Str(new_affiliate_content), current_snippet,
                                   AffiliateUpdateData(video_id, current_snippet,
                                                       new_description),
                                   None, None, sink, FALSE)
        /\ UNCHANGED <<editor_vars, backup_vars>>

\* preview_changes that sends the new description to the video.
preview_changes_applies(video_id, new_affiliate_content) ==
    \E fetch \in Outcomes :
        LET video_data == get_video_details(video_id, fetch) IN
        /\ videos_before' = videos
        /\ IF video_data = Raised \/ video_data = None
           THEN /\ videos' = videos
                /\ call' = CallRecord("preview_changes", video_id,
                                      Str(new_affiliate_content),
                                      FetchResult(video_id, fetch), "not_called",
                                      IF video_data = Raised THEN "raised" ELSE "None",
                                      None, None, None, None, None)
           ELSE LET new_description ==
                        add_affiliate_section(video_data.snippet["description"],
                                              new_affiliate_content)
                IN  /\ videos' = [videos EXCEPT ![video_id]["description"] = new_description]
                    /\ call' = CallRecord("preview_changes", video_id,
                                          Str(new_affiliate_content), "ok", "not_called",
                                          "None", video_data, None, Str(new_description),
                                          None, None)
        /\ UNCHANGED <<editor_vars, backup_vars>>

\* preview_changes: the fetch, the new description, prints, no request to
\* update. It returns None, or an exception of the fetch leaves it.
preview_changes(video_id, new_affiliate_content) ==
    \E fetch \in Outcomes :
        LET video_data == get_video_details(video_id, fetch) IN
        /\ videos_before' = videos
        /\ videos' = videos
        /\ IF video_data = Raised \/ video_data = None
           THEN call' = CallRecord("preview_changes", video_id,
                                   Str(new_affiliate_content),
                                   FetchResult(video_id, fetch), "not_called",
                                   IF video_data = Raised THEN "raised" ELSE "None",
                                   None, None, None, None, None)
           ELSE call' = CallRecord("preview_changes", video_id,
                                   Str(new_affiliate_content), "ok", "not_called", "None",
                                   video_data, None,
                                   Str(add_affiliate_section(
                                           video_data.snippet["description"],
                                           new_affiliate_content)),
                                   None, None)
        /\ UNCHANGED <<editor_vars, backup_vars>>

\* get_video_details of YT-Updater.py: the video_info dict it builds.
video_info_of(snippet) ==
    [title |-> snippet["title"],
     description |-> snippet["description"],
     tags |-> Get(snippet, "tags", <<>>),
     category_id |-> snippet["categoryId"],
     default_language |-> IF "defaultLanguage" \in DOMAIN snippet
                          THEN Str(snippet["defaultLanguage"]) ELSE None,
     published_at |-> snippet["publishedAt"]]

\* video_data of update_video_description: title or current title, tags or
\* current tags.
DescriptionUpdateData(video_id, current_video, new_description, title, tags) ==
    LET snippet == [title |-> IF title = None \/ title.s = ""
                              THEN current_video.title ELSE title.s,
                    description |-> new_description,
                    tags |-> IF tags = None \/ tags.v = <<>>
                             THEN current_video.tags ELSE tags.v,
                    categoryId |-> current_video.category_id]
        language == current_video.default_language
    IN  [id |-> video_id,
         snippet |-> IF language # None /\ language.s # ""
                     THEN [k \in DOMAIN snippet \cup {"defaultLanguage"} |->
                            IF k = "defaultLanguage" THEN language.s ELSE snippet[k]]
                     ELSE snippet]

\* update_video_description of YT-Updater.py; its try has except HttpError
\* and except Exception, both returning False.
update_video_description(video_id, new_description, title, tags) ==
    \E fetch \in Outcomes :
        LET video_data == get_video_details(video_id, fetch) IN
        /\ videos_before' = videos
        /\ IF video_data = Raised \/ video_data = None
           THEN /\ videos' = videos
                /\ call' = CallRecord("update_video_description", video_id, None,
                                      FetchResult(video_id, fetch), "not_called", "False",
                                      None, None, None, title, tags)
           ELSE \E sink \in Outcomes :
                    SendUpdate("update_video_description", video_id, None,
                               video_data.snippet,
                               DescriptionUpdateData(video_id,
                                                     video_info_of(video_data.snippet),
                                                     new_description, title, tags),
                               title, tags, sink, TRUE)
        /\ UNCHANGED <<editor_vars, backup_vars>>

NextUpdater ==
    \/ \E v \in RequestIds, c \in UpdaterContents : update_video_affiliate_links(v, c)
    \/ \E v \in RequestIds, c \in UpdaterContents : preview_changes(v, c)
    \/ \E v \in RequestIds, d \in NewDescriptions, title \in TitleArgs, tags \in TagsArgs :
            update_video_description(v, d, title, tags)

SpecUpdater == InitUpdater /\ [][NextUpdater]_vars

-----------------------------------------------------------------------------
(* The backup run: main and YouTubeBackupManager of backup_descriptions.py. *)
(* The channel's uploads are the videos 1..channel.size; channel.version     *)
(* tells which metadata the source serves for them.                         *)

batch_size == 50
maxResults == 50

MaxRuns == 2
MaxFailures == 1

\* The channel has no upload, two, or three pages of them; between two runs
\* it may gain one, up to the largest size.
LargestChannel == 2 * batch_size + 12
ChannelSizes == {0, 2, LargestChannel}
Uploads == {0, 1}
Versions == {1, 2}

\* The metadata after the owner has edited the videos.
Edited(version) == CHOOSE v \in Versions : v # version

\* The snippet the source serves for a video: in version 2 the odd videos
\* have neither title nor tags.
SnippetOf(id, version) ==
    IF version = 2 /\ id % 2 = 1
    THEN [description |-> <<"d", id, version>>, publishedAt |-> <<"p", id, version>>,
          categoryId |-> <<"c", version>>]
    ELSE [title |-> <<"t", id, version>>, description |-> <<"d", id, version>>,
          publishedAt |-> <<"p", id, version>>, categoryId |-> <<"c", version>>,
          tags |-> IF version = 1 THEN <<"x", "y">> ELSE <<"z">>]

\* json.dumps of a list of strings.
RECURSIVE json_items(_)
json_items(tags) ==
    IF tags = <<>> THEN <<>>
    ELSE <<"\"" \o Head(tags) \o "\"">>
            \o (IF Tail(tags) = <<>> THEN <<>> ELSE <<", ">>)
            \o json_items(Tail(tags))

json_dumps(tags) == <<"[">> \o json_items(tags) \o <<"]">>

\* The row written for a video, lines 211-216.
RowOf(id, snippet, backed_up_at) ==
    [video_id |-> id,
     title |-> Get(snippet, "title", <<>>),
     description |-> Get(snippet, "description", <<>>),
     published_at |-> Get(snippet, "publishedAt", <<>>),
     category_id |-> Get(snippet, "categoryId", <<>>),
     tags |-> json_dumps(Get(snippet, "tags", <<>>)),
     backed_up_at |-> backed_up_at]

\* The items of page p of the uploads playlist, and the token that follows.
PageItems(p) ==
    LET first == (p - 1) * maxResults
        count == IF channel.size - first > maxResults THEN maxResults
                 ELSE channel.size - first
    IN  [j \in 1..count |-> first + j]

NextPageToken(p) == IF channel.size > p * maxResults THEN p + 1 ELSE 0

\* A request or a statement may fail while fewer than MaxFailures have.
MayFail == failures < MaxFailures

\* The videos whose turn of the per-video loop may fail or be interrupted:
\* the first of the run, a later one of its batch, the first of the next batch.
FaultyVideos == {1, 2, batch_size + 1}

Running == bpc \in {"channels", "pages", "batch", "upsert"}

InitBackup ==
    /\ bpc = "idle"
    /\ run_no = 0
    /\ channel \in [size : ChannelSizes, version : {1}]
    /\ db_file = EmptyDatabase
    /\ db_conn = EmptyDatabase
    /\ listing = NoListing
    /\ video_ids = <<>>
    /\ counts = NoCounts
    /\ loop = NoLoop
    /\ clock = 0
    /\ failures = 0
    /\ last = NoStep
    /\ audit = NoAudit
    /\ EditorUnused
    /\ UpdaterUnused

\* main: init_database, the prompt answered yes, backup_videos entered. Since
\* the last run the owner has edited the videos and may have uploaded one.
StartBackup ==
    /\ ~Running
    /\ run_no < MaxRuns
    /\ run_no' = run_no + 1
    /\ \E u \in Uploads :
        /\ channel.size + u <= LargestChannel
        /\ channel' = IF run_no = 0 THEN channel
                       ELSE [size |-> channel.size + u, version |-> Edited(channel.version)]
    /\ audit' = NoAudit
    /\ db_conn' = db_file
    /\ listing' = NoListing
    /\ video_ids' = <<>>
    /\ counts' = NoCounts
    /\ loop' = NoLoop
    /\ bpc' = "channels"
    /\ last' = [action |-> "StartBackup", outcome |-> "ok"]
    /\ UNCHANGED <<db_file, clock, failures, editor_vars, updater_vars>>

\* An exception leaves backup_videos: main prints it and closes the
\* connection, and what was not committed is lost.
Fails(action, outcome) ==
    /\ bpc' = "failed"
    /\ db_conn' = db_file
    /\ failures' = failures + 1
    /\ last' = [action |-> action, outcome |-> outcome]

\* backup_videos returns at line 175, "No videos to backup".
NoVideos(action, outcome) ==
    /\ bpc' = "returned"
    /\ last' = [action |-> action, outcome |-> outcome]

\* get_all_channel_videos returns all_videos and backup_videos goes on from
\* line 173: it returns when the list is empty, else it takes the ids and
\* sets its counters.
ListingReturns(action, outcome, all_videos) ==
    /\ listing' = [all_videos |-> all_videos, token |-> 0]
    /\ IF all_videos = <<>>
       THEN NoVideos(action, outcome) /\ UNCHANGED <<video_ids, counts, loop>>
       ELSE /\ video_ids' = all_videos
            /\ counts' = NoCounts
            /\ loop' = NoLoop
            /\ bpc' = "batch"
            /\ last' = [action |-> action, outcome |-> outcome]

\* Lines 104-120: the channels request.
ListChannel ==
    /\ bpc = "channels"
    /\ \E outcome \in {"ok", "no_channel", "HttpError", "Exception"} :
        /\ outcome \in {"HttpError", "Exception"} => MayFail
        /\ CASE outcome = "ok" ->
                    /\ bpc' = "pages"
                    /\ last' = [action |-> "ListChannel", outcome |-> outcome]
                    /\ UNCHANGED <<db_conn, failures>>
             [] outcome = "no_channel" ->
                    /\ NoVideos("ListChannel", outcome)
                    /\ UNCHANGED <<db_conn, failures>>
             [] outcome = "HttpError" ->
                    /\ NoVideos("ListChannel", outcome)
                    /\ failures' = failures + 1
                    /\ UNCHANGED db_conn
             [] outcome = "Exception" -> Fails("ListChannel", outcome)
        /\ audit' = [audit EXCEPT !.listing_failed = @ \/ outcome \in {"HttpError", "Exception"}]
    /\ UNCHANGED <<run_no, channel, db_file, listing, video_ids, counts, loop, clock,
                   editor_vars, updater_vars>>

\* Lines 144-146 breaking out of the loop whatever the token.
more_pages_never(token) == FALSE

\* Lines 144-146: the while loop goes on when the response has a token.
more_pages(token) == token # 0

\* Lines 127-149, one turn of the while loop: the playlistItems request for
\* the page next_page_token names.
FetchPage ==
    /\ bpc = "pages"
    /\ \E outcome \in {"ok", "HttpError", "Exception"} :
        /\ outcome # "ok" => MayFail
        /\ CASE outcome = "ok" ->
                    LET p == IF listing.token = 0 THEN 1 ELSE listing.token
                        all_videos == listing.all_videos \o PageItems(p)
                    IN  /\ IF more_pages(NextPageToken(p))
                           THEN /\ listing' = [all_videos |-> all_videos,
                                               token |-> NextPageToken(p)]
                                /\ bpc' = "pages"
                                /\ last' = [action |-> "FetchPage", outcome |-> outcome]
                                /\ UNCHANGED <<video_ids, counts, loop>>
                           ELSE ListingReturns("FetchPage", outcome, all_videos)
                        /\ UNCHANGED <<db_conn, failures>>
             [] outcome = "HttpError" ->
                    /\ ListingReturns("FetchPage", outcome, listing.all_videos)
                    /\ failures' = failures + 1
                    /\ UNCHANGED db_conn
             [] outcome = "Exception" ->
                    /\ Fails("FetchPage", outcome)
                    /\ UNCHANGED <<listing, video_ids, counts, loop>>
        /\ audit' = IF outcome = "ok"
                     THEN [audit EXCEPT !.pages = Append(@, PageItems(IF listing.token = 0 THEN 1 ELSE listing.token))]
                     ELSE [audit EXCEPT !.listing_failed = TRUE]
    /\ UNCHANGED <<run_no, channel, db_file, clock, editor_vars, updater_vars>>

\* Line 190 with a slice one element too long.
batch_of_one_more(ids, i) ==
    SubSeq(ids, i + 1, IF i + batch_size + 1 < Len(ids) THEN i + batch_size + 1 ELSE Len(ids))

\* Line 190: video_ids[i:i + batch_size].
batch_of(ids, i) ==
    SubSeq(ids, i + 1, IF i + batch_size < Len(ids) THEN i + batch_size ELSE Len(ids))

\* Lines 189-197: the next batch of ids and get_video_details for it. After
\* an HttpError get_video_details returns [] and the for loop over it is
\* done at once.
FetchBatch ==
    /\ bpc = "batch"
    /\ loop.i < Len(video_ids)
    /\ \E outcome \in {"ok", "HttpError", "Exception"} :
        LET batch == batch_of(video_ids, loop.i)
            requested == [audit EXCEPT !.batches = Append(@, batch)]
            nth == Len(requested.batches)
        IN  /\ outcome # "ok" => MayFail
            /\ CASE outcome = "ok" ->
                        /\ loop' = [loop EXCEPT
                                !.video_details =
                                    [j \in 1..Len(batch) |->
                                        [id |-> batch[j],
                                         snippet |-> SnippetOf(batch[j], channel.version)]],
                                !.k = 1]
                        /\ bpc' = "upsert"
                        /\ last' = [action |-> "FetchBatch", outcome |-> outcome]
                        /\ audit' = [requested EXCEPT !.returned = @ + Len(batch)]
                        /\ UNCHANGED <<db_conn, failures>>
                 [] outcome = "HttpError" ->
                        /\ loop' = [loop EXCEPT !.video_details = <<>>, !.k = 0,
                                                !.i = @ + batch_size]
                        /\ bpc' = "batch"
                        /\ failures' = failures + 1
                        /\ last' = [action |-> "FetchBatch", outcome |-> outcome]
                        /\ audit' = [requested EXCEPT !.batch_failed = IF @ = 0 THEN nth ELSE @]
                        /\ UNCHANGED db_conn
                 [] outcome = "Exception" ->
                        /\ Fails("FetchBatch", outcome)
                        /\ audit' = [requested EXCEPT !.batch_failed = IF @ = 0 THEN nth ELSE @]
                        /\ UNCHANGED loop
    /\ UNCHANGED <<run_no, channel, db_file, listing, video_ids, counts, clock,
                   editor_vars, updater_vars>>

\* Lines 220-224 with every column but one: the UPDATE leaves tags alone.
update_videos_keeps_tags(old, row) ==
    [old EXCEPT !.title = row.title, !.description = row.description,
                !.published_at = row.published_at,
                !.category_id = row.category_id,
                !.backed_up_at = row.backed_up_at]

\* Lines 220-224: UPDATE videos SET ... WHERE video_id=?
update_videos(old, row) ==
    [old EXCEPT !.title = row.title, !.description = row.description,
                !.published_at = row.published_at,
                !.category_id = row.category_id, !.tags = row.tags,
                !.backed_up_at = row.backed_up_at]

\* Lines 229-232 on a table that keeps the row inserted last only.
insert_videos_alone(stored, row) == (row.video_id :> row)

\* Lines 229-232: INSERT INTO videos.
insert_videos(stored, row) == (row.video_id :> row) @@ stored

\* Lines 218-234: the branch on exists, its statement and its counter.
write_video(stored, tally, row) ==
    IF row.video_id \in DOMAIN stored
    THEN [videos |-> [stored EXCEPT ![row.video_id] = update_videos(@, row)],
          counts |-> [tally EXCEPT !.updated_count = @ + 1]]
    ELSE [videos |-> insert_videos(stored, row),
          counts |-> [tally EXCEPT !.new_count = @ + 1]]

\* The for loop over video_details leaving out the last element.
NextVideo_but_last(l) ==
    IF l.k + 1 < Len(l.video_details)
    THEN [l EXCEPT !.k = @ + 1]
    ELSE [l EXCEPT !.k = 0, !.i = @ + batch_size]

\* The for loop over video_details goes to its next element, or ends and
\* hands over to the next turn of the loop over the batches.
NextVideo(l) ==
    IF l.k < Len(l.video_details)
    THEN [l EXCEPT !.k = @ + 1]
    ELSE [l EXCEPT !.k = 0, !.i = @ + batch_size]

UpsertOutcomes ==
    {"ok", "no_id", "no_snippet", "select_error", "write_error",
     "commit_error_pending", "commit_error_rolled_back"}

\* Lines 200-244, one turn of the for loop over video_details. The except
\* clause prints video_id: when line 202 has never bound it in this run,
\* that raises out of backup_videos.
UpsertVideo ==
    /\ bpc = "upsert"
    /\ \E outcome \in UpsertOutcomes :
        LET video == loop.video_details[loop.k]
            video_id == IF outcome = "no_id" THEN loop.video_id ELSE video.id
            row == RowOf(video.id, video.snippet, clock + 1)
            wrote == write_video(db_conn.videos, counts, row)
            then == [NextVideo(loop) EXCEPT !.video_id = video_id]
            error == [counts EXCEPT !.error_count = @ + 1]
            turn == [audit EXCEPT !.processed = @ + 1]
            failed == [turn EXCEPT !.errored = @ \cup {video.id}]
        IN  /\ outcome # "ok" => MayFail /\ video.id \in FaultyVideos
            /\ CASE outcome = "ok" ->
                        /\ db_conn' = [db_conn EXCEPT !.videos = wrote.videos]
                        /\ db_file' = db_conn'
                        /\ counts' = wrote.counts
                        /\ loop' = then
                        /\ bpc' = IF then.k = 0 THEN "batch" ELSE "upsert"
                        /\ last' = [action |-> "UpsertVideo", outcome |-> outcome]
                        /\ audit' = IF video.id \in DOMAIN db_conn.videos
                                     THEN [turn EXCEPT !.stored = @ + 1, !.updated = @ + 1]
                                     ELSE [turn EXCEPT !.stored = @ + 1, !.inserted = @ + 1]
                        /\ UNCHANGED failures
                 [] outcome = "no_id" /\ loop.video_id = 0 ->
                        /\ Fails("UpsertVideo", outcome)
                        /\ UNCHANGED <<db_file, counts, loop, audit>>
                 [] outcome = "commit_error_pending" ->
                        /\ db_conn' = [db_conn EXCEPT !.videos = wrote.videos]
                        /\ counts' = [wrote.counts EXCEPT !.error_count = @ + 1]
                        /\ loop' = then
                        /\ bpc' = IF then.k = 0 THEN "batch" ELSE "upsert"
                        /\ failures' = failures + 1
                        /\ last' = [action |-> "UpsertVideo", outcome |-> outcome]
                        /\ audit' = failed
                        /\ UNCHANGED db_file
                 [] outcome = "commit_error_rolled_back" ->
                        /\ db_conn' = db_file
                        /\ counts' = [wrote.counts EXCEPT !.error_count = @ + 1]
                        /\ loop' = then
                        /\ bpc' = IF then.k = 0 THEN "batch" ELSE "upsert"
                        /\ failures' = failures + 1
                        /\ last' = [action |-> "UpsertVideo", outcome |-> outcome]
                        /\ audit' = failed
                        /\ UNCHANGED db_file
                 [] OTHER ->
                        /\ counts' = error
                        /\ loop' = then
                        /\ bpc' = IF then.k = 0 THEN "batch" ELSE "upsert"
                        /\ failures' = failures + 1
                        /\ last' = [action |-> "UpsertVideo", outcome |-> outcome]
                        /\ audit' = failed
                        /\ UNCHANGED <<db_conn, db_file>>
    /\ clock' = clock + 1
    /\ UNCHANGED <<run_no, channel, listing, video_ids, editor_vars, updater_vars>>

\* Lines 247-251 on a table that keeps its newest row only.
insert_backup_runs_replacing(rows, row) == <<row>>

\* Lines 247-251: INSERT INTO backup_runs.
insert_backup_runs(rows, row) == Append(rows, row)

\* Lines 246-252 once the loop over the batches has ended, then the summary
\* and show_stats, which only read.
RecordRun ==
    /\ bpc = "batch"
    /\ loop.i >= Len(video_ids)
    /\ \E outcome \in {"ok", "Exception"} :
        /\ outcome # "ok" => MayFail
        /\ IF outcome = "ok"
           THEN /\ db_conn' = [db_conn EXCEPT !.backup_runs =
                        insert_backup_runs(@, [timestamp |-> clock + 1,
                                   videos_count |-> Len(video_ids),
                                   new_count |-> counts.new_count,
                                   updated_count |-> counts.updated_count,
                                   notes |-> "Full backup"])]
                /\ db_file' = db_conn'
                /\ bpc' = "done"
                /\ last' = [action |-> "RecordRun", outcome |-> outcome]
                /\ audit' = [audit EXCEPT !.recorded = @ + 1]
                /\ UNCHANGED failures
           ELSE /\ Fails("RecordRun", outcome)
                /\ UNCHANGED <<db_file, audit>>
    /\ clock' = clock + 1
    /\ UNCHANGED <<run_no, channel, listing, video_ids, counts, loop,
                   editor_vars, updater_vars>>

\* Lines 334-339: the user interrupts the run; main closes the connection.
Interrupt ==
    /\ Running
    /\ MayFail
    /\ bpc = "upsert" => loop.video_details[loop.k].id \in FaultyVideos
    /\ bpc' = "interrupted"
    /\ db_conn' = db_file
    /\ failures' = failures + 1
    /\ last' = [action |-> "Interrupt", outcome |-> "KeyboardInterrupt"]
    /\ UNCHANGED <<run_no, channel, db_file, listing, video_ids, counts, loop, clock,
                   audit, editor_vars, updater_vars>>

NextBackup ==
    \/ StartBackup
    \/ ListChannel
    \/ FetchPage
    \/ FetchBatch
    \/ UpsertVideo
    \/ RecordRun
    \/ Interrupt

SpecBackup == InitBackup /\ [][NextBackup]_vars

\* A run under way takes its next step: every request is answered, with a
\* response or with an exception, and every statement returns.
RunGoesOn == ListChannel \/ FetchPage \/ FetchBatch \/ UpsertVideo \/ RecordRun

SpecBackupFair == SpecBackup /\ WF_vars(RunGoesOn)

-----------------------------------------------------------------------------
(* What the claims about the editor speak of, stated on the text itself.   *)

Min(S) == CHOOSE x \in S : \A y \in S : x <= y
Max(S) == CHOOSE x \in S : \A y \in S : x >= y

\* The first and the last character of s that is no whitespace, 0 if none.
RECURSIVE FirstNonBlank(_, _)
FirstNonBlank(s, k) ==
    IF k > Len(s) THEN 0
    ELSE IF s[k] \notin Whitespace THEN k
    ELSE FirstNonBlank(s, k + 1)

RECURSIVE LastNonBlank(_, _)
LastNonBlank(s, k) ==
    IF k < 1 THEN 0
    ELSE IF s[k] \notin Whitespace THEN k
    ELSE LastNonBlank(s, k - 1)

RTrim(s) == SubSeq(s, 1, LastNonBlank(s, Len(s)))
LTrim(s) ==
    LET f == FirstNonBlank(s, 1) IN
    IF f = 0 THEN <<>> ELSE SubSeq(s, f, Len(s))
Trim(s) ==
    LET f == FirstNonBlank(s, 1) IN
    IF f = 0 THEN <<>> ELSE SubSeq(s, f, LastNonBlank(s, Len(s)))

\* The positions where the literal p stands in d.
Occurrences(d, p) == {i \in 1..Len(d) : LiteralAt(d, p, i)}

\* The first START...END span of d: found says whether d has one, start is
\* the first START marker that an END marker follows, end the first END
\* marker after it, after the first position behind that END marker.
FirstSpan(d) ==
    LET starts == Occurrences(d, START_DELIMITER)
        ends == Occurrences(d, END_DELIMITER)
        opened == {i \in starts : \E j \in ends : j >= i + Len(START_DELIMITER)}
    IN  IF opened = {} THEN [found |-> FALSE]
        ELSE LET i == Min(opened)
                 j == Min({e \in ends : e >= i + Len(START_DELIMITER)})
             IN  [found |-> TRUE, start |-> i, end |-> j,
                  after |-> j + Len(END_DELIMITER)]

HasSpan(d) == FirstSpan(d).found

\* d without the characters at the positions of the set gone, read from k on.
RECURSIVE Without(_, _, _)
Without(d, gone, k) ==
    IF k > Len(d) THEN <<>>
    ELSE (IF k \in gone THEN <<>> ELSE <<d[k]>>) \o Without(d, gone, k + 1)

\* A run of three or more newlines written as two: a newline goes exactly
\* when the two characters before it are newlines.
CollapseNewlines(s) ==
    LET gone == {k \in 3..Len(s) : s[k] = NL /\ s[k - 1] = NL /\ s[k - 2] = NL}
    IN  Without(s, gone, 1)

\* C1 (as claimed): extracting from what add_affiliate_section returned gives
\* the content back, trimmed, for every description and every content.
C1_RoundTrip ==
    pc = "extract_added" => ret = Str(Trim(affiliate_content))

\* C2 (as claimed): add_affiliate_section applied to its own result with the
\* same content returns that result unchanged.
C2_Idempotent ==
    pc = "add_again" => ret.s = arg

\* C3: add_affiliate_section returns before, a blank line, the new section,
\* and a blank line and after when after is not empty, where before and after
\* are the trimmed texts around the first span of the description.
C3_before ==
    LET sp == FirstSpan(arg) IN
    IF sp.found THEN RTrim(SubSeq(arg, 1, sp.start - 1)) ELSE RTrim(arg)
C3_after ==
    LET sp == FirstSpan(arg) IN
    IF sp.found THEN LTrim(SubSeq(arg, sp.after, Len(arg))) ELSE <<>>
C3_PositionPreserved ==
    pc = "add" =>
        LET before == C3_before
            after == C3_after
        IN  ret.s = before \o <<NL, NL>> \o START_DELIMITER \o <<NL>> \o affiliate_content
                        \o <<NL>> \o END_DELIMITER
                        \o (IF after # <<>> THEN <<NL, NL>> \o after ELSE <<>>)

\* C3's case: a section between two texts is replaced.
C3_Witness ==
    /\ pc = "add"
    /\ HasSpan(arg)
    /\ C3_before # <<>>
    /\ C3_after # <<>>
    /\ affiliate_content # <<>>

\* C4: extract_affiliate_section returns the trimmed text between the first
\* START marker and the first END marker after it, None exactly when there is
\* no such pair, and leaves the description as it was.
C4_expected(d) ==
    LET starts == Occurrences(d, START_DELIMITER) IN
    IF starts = {} THEN None
    ELSE LET first == Min(starts)
             ends == {j \in Occurrences(d, END_DELIMITER) :
                         j >= first + Len(START_DELIMITER)}
         IN  IF ends = {} THEN None
             ELSE Str(Trim(SubSeq(d, first + Len(START_DELIMITER), Min(ends) - 1)))
C4_ExtractFirstSpan ==
    pc = "extract" => arg = description /\ ret = C4_expected(arg)

\* C4's case: a description with more END markers than the first one, whose
\* first section holds text.
C4_Witness ==
    /\ pc = "extract"
    /\ Cardinality(Occurrences(arg, END_DELIMITER)) > 2
    /\ ret = Str(<<"a">>)

\* The marker occurrences of d read left to right without overlap. START
\* and END being the same literal, the spans re.sub removes are the first
\* marker with the second, the third with the fourth, and so on.
RECURSIVE MarkerTokens(_, _)
MarkerTokens(d, from) ==
    LET later == {i \in Occurrences(d, START_DELIMITER) : i >= from} IN
    IF later = {} THEN <<>>
    ELSE LET i == Min(later) IN <<i>> \o MarkerTokens(d, i + Len(START_DELIMITER))

\* The positions of the first n spans of d.
SpanPositions(d, n) ==
    LET tok == MarkerTokens(d, 1) IN
    UNION {tok[2 * t - 1]..(tok[2 * t] + Len(END_DELIMITER) - 1) : t \in 1..n}

SpanCount(d) == Len(MarkerTokens(d, 1)) \div 2

\* What remove_affiliate_section does to the text it keeps.
Normalize(s) == CollapseNewlines(Trim(s))

C6_NoSectionNoOp ==
    /\ pc = "extract" /\ ~HasSpan(description) => ret = None
    /\ pc = "remove" /\ ~HasSpan(description) =>
            ret.s = Trim(CollapseNewlines(description))
    /\ pc = "remove_again" /\ ~HasSpan(description) => ret.s = arg

\* C6's case: a description without markers whose run of three newlines
\* was collapsed by the first call, removed from again.
C6_Witness ==
    /\ pc = "remove_again"
    /\ description = <<"a", NL, NL, NL, "a">>
    /\ arg = <<"a", NL, NL, "a">>
    /\ ret.s = arg

-----------------------------------------------------------------------------
(* The claims about the description updaters.                              *)

ApplyOps == {"update_video_affiliate_links", "update_video_description"}

\* The language tag of a snippet, None when it has none.
LanguageOf(d) == IF HasLanguage(d) THEN Str(d["defaultLanguage"]) ELSE None

\* The snippet sent carries the fetched title, tags, category and language,
\* it goes to the video asked for, and no other video changed.
MetadataCarriedOver ==
    LET fetched == call.fetched.snippet
        sent == call.written.snippet
    IN  /\ fetched = videos_before[call.video_id]
        /\ call.written.id = call.video_id
        /\ sent["title"] = fetched["title"]
        /\ sent["tags"] = Get(fetched, "tags", <<>>)
        /\ sent["categoryId"] = fetched["categoryId"]
        /\ LanguageOf(sent) = LanguageOf(fetched)
        /\ DOMAIN sent \subseteq {"title", "description", "tags", "categoryId",
                                  "defaultLanguage"}
        /\ \A v \in VideoIds \ {call.video_id} : videos[v] = videos_before[v]
        /\ call.sink = "ok" =>
            /\ videos[call.video_id]["title"] = fetched["title"]
            /\ Get(videos[call.video_id], "tags", <<>>) = Get(fetched, "tags", <<>>)
            /\ videos[call.video_id]["categoryId"] = fetched["categoryId"]
            /\ LanguageOf(videos[call.video_id]) = LanguageOf(fetched)

\* C7 (as claimed): every apply of either updater that reaches the sink
\* writes the fetched title, tags, category and language back unchanged.
C7_EveryApplyCarriesMetadata ==
    call.op \in ApplyOps /\ call.sink # "not_called" => MetadataCarriedOver

\* The call gave update_video_description a title or tags to write.
Overrides ==
    \/ call.title # None /\ call.title.s # ""
    \/ call.tags # None /\ call.tags.v # <<>>

\* C7 (amended): update_video_affiliate_links always, and
\* update_video_description when it is given no title and no tags, write the
\* fetched title, tags, category and language back unchanged, to the video
\* asked for and to no other.
C7_ApplyCarriesMetadata ==
    call.op \in ApplyOps /\ call.sink # "not_called" /\ ~Overrides => MetadataCarriedOver

\* C7's case: the affiliate section of a video with tags and a language was
\* written.
C7_Witness ==
    /\ call.op = "update_video_affiliate_links"
    /\ call.sink = "ok"
    /\ call.video_id = "v1"
    /\ videos["v1"]["description"] # videos_before["v1"]["description"]
    /\ videos["v1"]["tags"] # <<>>
    /\ HasLanguage(videos["v1"])

\* C8: preview_changes sends no update request and leaves every remote video
\* as it was, and the description it computes is add_affiliate_section of the
\* fetched description.
C8_PreviewWritesNothing ==
    call.op = "preview_changes" =>
        /\ videos = videos_before
        /\ call.sink = "not_called"
        /\ call.written = None
        /\ call.fetch = "ok" =>
            call.new_description =
                Str(add_affiliate_section(videos[call.video_id]["description"],
                                          call.content.s))
        /\ call.fetch # "ok" => call.new_description = None

\* C8's cases: a preview of a video that has a section, and one of a video
\* the source does not have.
C8_Witness ==
    /\ call.op = "preview_changes"
    /\ call.fetch = "ok"
    /\ HasSpan(videos[call.video_id]["description"])
    /\ call.new_description.s # videos[call.video_id]["description"]

\* C9 (as claimed): an apply whose fetch fails or finds no document, or whose
\* write the sink rejects, returns False without raising, leaves the remote
\* videos as they were and sends no update request after a failed fetch.
C9_ApplyFailsWithoutRaising ==
    call.op \in ApplyOps /\ (call.fetch # "ok" \/ call.sink = "HttpError") =>
        /\ call.result = "False"
        /\ videos = videos_before
        /\ call.fetch # "ok" => call.sink = "not_called"

-----------------------------------------------------------------------------
(* What the claims about the backup run speak of.                           *)

\* The fields a stored record must hold for a document at a given time:
\* the document's values, the default where it has none, tags as JSON text.
FieldValues(doc, time) ==
    [video_id |-> doc.id,
     title |-> IF "title" \in DOMAIN doc.snippet THEN doc.snippet.title ELSE <<>>,
     description |-> IF "description" \in DOMAIN doc.snippet
                     THEN doc.snippet.description ELSE <<>>,
     published_at |-> IF "publishedAt" \in DOMAIN doc.snippet
                      THEN doc.snippet.publishedAt ELSE <<>>,
     category_id |-> IF "categoryId" \in DOMAIN doc.snippet
                     THEN doc.snippet.categoryId ELSE <<>>,
     tags |-> IF "tags" \in DOMAIN doc.snippet
              THEN json_dumps(doc.snippet.tags) ELSE <<"[", "]">>,
     backed_up_at |-> time]

\* C10: every upsert step that completes inserts a record and counts NEW
\* exactly when the store held no record with the document's identifier,
\* and otherwise overwrites the record and counts UPDATED; either way the
\* stored record then holds exactly the field values of this call, every
\* other record is as it was, and the write is committed. So a first upsert
\* into an empty store is NEW and a second one of the same identifier is
\* UPDATED and leaves the second call's values.
C10_UpsertClassification ==
    [][ (last'.action = "UpsertVideo" /\ last'.outcome = "ok") =>
            LET doc == loop.video_details[loop.k]
                stored == db_conn.videos
                after == db_conn'.videos
            IN  /\ DOMAIN after = DOMAIN stored \cup {doc.id}
                /\ after[doc.id] = FieldValues(doc, clock')
                /\ \A other \in DOMAIN stored \ {doc.id} : after[other] = stored[other]
                /\ db_file'.videos = after
                /\ IF doc.id \in DOMAIN stored
                   THEN counts' = [counts EXCEPT !.updated_count = @ + 1]
                   ELSE counts' = [counts EXCEPT !.new_count = @ + 1] ]_vars

\* A first run into the empty store counted both videos NEW; the second run
\* has just upserted video 1 again, counted it UPDATED, and the record holds
\* the second call's values, the title among them now the default.
C10_Witness ==
    /\ last = [action |-> "UpsertVideo", outcome |-> "ok"]
    /\ run_no = 2
    /\ channel = [size |-> 2, version |-> 2]
    /\ Len(db_file.backup_runs) = 1
    /\ db_file.backup_runs[1].new_count = 2
    /\ db_file.backup_runs[1].updated_count = 0
    /\ loop.video_id = 1
    /\ counts = [new_count |-> 0, updated_count |-> 1, error_count |-> 0]
    /\ db_file.videos[1].title = <<>>
    /\ db_file.videos[1].description = <<"d", 1, 2>>
    /\ db_file.videos[1].tags = <<"[", "]">>
    /\ db_file.videos[2].description = <<"d", 2, 1>>
    /\ db_file.videos[2].tags = <<"[", "\"x\"", ", ", "\"y\"", "]">>

\* C11 (as claimed): in a run in which a listing request has failed, the
\* channel lookup or the fetch of any page, the run has ended before the
\* upserts: no detail batch is requested and no record is written.
C11_ListingFailureAborts ==
    audit.listing_failed =>
        /\ bpc \in {"returned", "failed"}
        /\ audit.batches = <<>>
        /\ audit.stored = 0

\* The run has ended without reaching its end: it returned for want of
\* videos, an exception left it, or the user interrupted it.
Aborted(where) == where \in {"returned", "failed", "interrupted"}

\* C12: the rows of backup_runs are never changed or removed; a step adds at
\* most one, and only the first of its run, when the loop over the batches
\* has ended and every document fetched has had its turn; after it the run
\* writes no video and fetches no batch; and a run that ends aborted or
\* interrupted has added none.
C12_RunRecordedOnceAtTheEnd ==
    [][ LET old == db_file.backup_runs
            new == db_file'.backup_runs
        IN  /\ Len(new) >= Len(old)
            /\ SubSeq(new, 1, Len(old)) = old
            /\ run_no' = run_no => audit'.recorded - audit.recorded = Len(new) - Len(old)
            /\ new # old =>
                /\ Len(new) = Len(old) + 1
                /\ audit.recorded = 0
                /\ bpc = "batch" /\ loop.i >= Len(video_ids)
                /\ audit.processed = audit.returned
                /\ bpc' = "done"
            /\ audit.recorded > 0 /\ run_no' = run_no =>
                /\ db_file'.videos = db_file.videos
                /\ db_conn'.videos = db_conn.videos
                /\ audit'.batches = audit.batches
            /\ Aborted(bpc') => audit'.recorded = 0 ]_vars

\* Two runs have ended recorded, the second on a channel that had gained an
\* upload: its row follows the first run's, which is as it was written.
C12_Witness ==
    /\ bpc = "done"
    /\ run_no = 2
    /\ audit.recorded = 1
    /\ audit.processed = 3
    /\ Len(db_file.backup_runs) = 2
    /\ db_file.backup_runs[1].videos_count = 2
    /\ db_file.backup_runs[1].timestamp < db_file.backup_runs[2].timestamp
    /\ db_file.backup_runs[2].videos_count = 3

\* C13 (as claimed): the row a run adds to backup_runs holds the number of
\* documents the run has processed, the number of its upserts that inserted
\* and the number that updated.
C13_RunRecordCounts ==
    bpc = "done" /\ audit.recorded = 1 =>
        LET row == db_file.backup_runs[Len(db_file.backup_runs)]
        IN  /\ row.videos_count = audit.processed
            /\ row.new_count = audit.inserted
            /\ row.updated_count = audit.updated

\* The sequences of a sequence, one after the other.
RECURSIVE Flatten(_)
Flatten(seqs) == IF seqs = <<>> THEN <<>> ELSE Head(seqs) \o Flatten(Tail(seqs))

\* The lengths of the sequences of a sequence.
Sizes(seqs) == [j \in 1..Len(seqs) |-> Len(seqs[j])]

\* The listing has returned its list to backup_videos, and no request of it
\* has failed.
Listed == bpc \in {"batch", "upsert", "done"} /\ ~audit.listing_failed

\* The loop over the batches has ended.
BatchesDone == bpc = "done" \/ (bpc = "batch" /\ loop.i >= Len(video_ids))

\* C14: once the listing has returned, the identifiers are those of the
\* pages the source served, page after page in the order served, all of the
\* channel's; the batches requested so far are consecutive chunks of that
\* list from its start, none longer than batch_size and each one that has a
\* successor exactly that long; and when the loop over the batches has ended
\* there are ceil(n / batch_size) of them, which together are the list.
C14_PagesAndBatches ==
    LET n == Len(video_ids)
        asked == audit.batches
    IN  /\ Listed =>
            /\ video_ids = Flatten(audit.pages)
            /\ video_ids = [j \in 1..channel.size |-> j]
        /\ Flatten(asked) = SubSeq(video_ids, 1, Len(Flatten(asked)))
        /\ \A b \in 1..Len(asked) :
            /\ Len(asked[b]) <= batch_size
            /\ b < Len(asked) => Len(asked[b]) = batch_size
        /\ BatchesDone =>
            /\ Len(asked) = (n + batch_size - 1) \div batch_size
            /\ Flatten(asked) = video_ids

\* The claim's scenario: pages of 50, 50 and 12 have given 112 identifiers,
\* fetched in batches of 50, 50 and 12.
C14_Witness ==
    /\ bpc = "done"
    /\ Sizes(audit.pages) = <<50, 50, 12>>
    /\ Len(video_ids) = 112
    /\ video_ids[51] = 51 /\ video_ids[112] = 112
    /\ Sizes(audit.batches) = <<50, 50, 12>>
    /\ audit.processed = 112

\* C15 (as claimed): a turn of the per-video loop that fails, on a malformed
\* document or on a store error, at any position, is caught and counted as
\* an error and the run goes on to the next document.
C15_DocumentFailureIsCounted ==
    last.action = "UpsertVideo" /\ last.outcome # "ok" =>
        /\ ~Aborted(bpc)
        /\ audit.errored # {}
        /\ counts.error_count = Cardinality(audit.errored)

\* C16 (as claimed): a listing page after the first is requested only when
\* every document of the pages before it has been upserted, and a detail
\* batch after the first only when every document of the batches before it
\* has been.
C16_StrictlySequential ==
    [][ /\ last'.action = "FetchPage" /\ listing.all_videos # <<>> =>
                audit.stored = Len(listing.all_videos)
        /\ last'.action = "FetchBatch" /\ audit.batches # <<>> =>
                audit.stored = Len(Flatten(audit.batches)) ]_vars

\* C16 (amended): the listing comes first, whole: the channel and every page
\* are requested before any detail batch is and before any document has its
\* turn; then the batches follow one another: a batch is requested only
\* when every document the fetches before it returned has had its turn,
\* stored or counted as an error, and a document has its turn only as one of
\* the batch requested last.
C16_ListThenBatchByBatch ==
    [][ /\ last'.action \in {"ListChannel", "FetchPage"} =>
                /\ audit.batches = <<>>
                /\ audit.processed = 0
        /\ last'.action = "FetchBatch" =>
                /\ audit.processed = audit.returned
                /\ audit.stored + Cardinality(audit.errored) = audit.processed
                /\ audit'.pages = audit.pages
        /\ last'.action = "UpsertVideo" =>
                /\ audit.batches # <<>>
                /\ \E j \in 1..Len(audit.batches[Len(audit.batches)]) :
                        audit.batches[Len(audit.batches)][j] = loop.video_details[loop.k].id
                /\ audit.processed < audit.returned ]_vars

\* The third batch of a channel of three pages has just been fetched: the
\* three pages were listed first, and the 100 documents of the two batches
\* before it have had their turn.
C16_Witness ==
    /\ last = [action |-> "FetchBatch", outcome |-> "ok"]
    /\ Len(audit.pages) = 3
    /\ Len(audit.batches) = 3
    /\ audit.returned = 112
    /\ audit.processed = 100
    /\ audit.stored = 100

\* No two records of the table have the same identifier: each is stored
\* under its own.
OnePerIdentifier(stored) ==
    /\ Cardinality({stored[a].video_id : a \in DOMAIN stored}) = Cardinality(DOMAIN stored)
    /\ \A a \in DOMAIN stored : stored[a].video_id = a

\* C17: the store never holds two records with one identifier, neither in
\* the file nor as the connection sees it; and a record that is committed
\* has a record for its identifier in the file after every step, whatever
\* the step: an upsert, a failed turn, a failed fetch, the end of a run by
\* exception or interrupt, the start of the next run.
C17_DurableAndUnique ==
    /\ [](/\ OnePerIdentifier(db_file.videos)
          /\ OnePerIdentifier(db_conn.videos)
          /\ DOMAIN db_file.videos \subseteq DOMAIN db_conn.videos)
    /\ [][DOMAIN db_file.videos \subseteq DOMAIN db_file'.videos]_vars

\* A first run stored both videos; the second was interrupted after it had
\* updated the first of them: both records are there, one from each run.
C17_Witness ==
    /\ run_no = 2
    /\ bpc = "interrupted"
    /\ audit.stored = 1
    /\ DOMAIN db_file.videos = {1, 2}
    /\ db_file.videos[2].backed_up_at < db_file.videos[1].backed_up_at
    /\ db_file.videos[2].description = <<"d", 2, 1>>
    /\ db_file.videos[1].description = <<"d", 1, 2>>

\* C18 (as claimed): a run in which a remote call has failed, a listing
\* request or the fetch of a detail batch, does not end as a completed run,
\* and after a failed fetch of a batch no later batch is requested.
C18_SourceErrorAborts ==
    /\ audit.listing_failed \/ audit.batch_failed # 0 =>
            bpc # "done" /\ audit.recorded = 0
    /\ audit.batch_failed # 0 => Len(audit.batches) = audit.batch_failed

\* The phase of the run: 1 Listing, 2 Paginating, 3 PerBatchDetail,
\* 4 Upserting, 5 RunRecorded (the loop over the batches has ended and the
\* run record is being written), 6 Done, recorded or aborted; 0 before the
\* first run.
Phase ==
    CASE bpc = "idle" -> 0
      [] bpc = "channels" -> 1
      [] bpc = "pages" -> 2
      [] bpc = "batch" /\ loop.i < Len(video_ids) -> 3
      [] bpc = "upsert" -> 4
      [] bpc = "batch" /\ loop.i >= Len(video_ids) -> 5
      [] OTHER -> 6

\* A page has been fetched and the listing goes on exactly when the
\* response names a further page.
StopsAtFirstPageWithoutToken ==
    last'.action = "FetchPage" /\ last'.outcome = "ok" =>
        LET p == IF listing.token = 0 THEN 1 ELSE listing.token
        IN  /\ bpc' = "pages" <=> NextPageToken(p) # 0
            /\ bpc' = "pages" => listing'.token = NextPageToken(p)

\* C19 (as claimed): the listing stops at the first response without a
\* token, every run reaches its end, and no step of a run takes it back to
\* an earlier phase.
C19_TerminatesInPhaseOrder ==
    /\ [][StopsAtFirstPageWithoutToken]_vars
    /\ [][run_no' = run_no => Phase' >= Phase]_vars
    /\ []<>~Running

\* C19 (amended): the listing stops at the first response without a token,
\* every run reaches its end, and no step of a run takes it back to an
\* earlier phase but the one from Upserting to PerBatchDetail, when the last
\* document of a batch has had its turn and a further batch remains.
C19_TerminatesBatchByBatch ==
    /\ [][StopsAtFirstPageWithoutToken]_vars
    /\ [][run_no' = run_no =>
            \/ Phase' >= Phase
            \/ /\ Phase = 4 /\ Phase' = 3
               /\ loop.k = Len(loop.video_details)
               /\ loop'.i = loop.i + batch_size ]_vars
    /\ []<>~Running

\* A second run over the channel of three pages has ended recorded, having
\* gone from Upserting back to PerBatchDetail for its second and its third
\* batch.
C19_Witness ==
    /\ bpc = "done"
    /\ run_no = 2
    /\ Len(audit.pages) = 3
    /\ Len(audit.batches) = 3
    /\ audit.updated = 112
    /\ audit.recorded = 1

\* The record a table holds for an identifier, if any.
RecordOf(stored, id) == IF id \in DOMAIN stored THEN <<stored[id]>> ELSE <<>>

\* C20 (as claimed): the three tallies together count the documents that
\* have had their turn, each once, also when it is the commit that fails;
\* and the record of a document counted as an error is, in the connection
\* after its turn and in the file for the rest of the run, what it was
\* before: none if there was none.
C20_TallyPartition ==
    /\ [](counts.new_count + counts.updated_count + counts.error_count = audit.processed)
    /\ [][\A id \in audit'.errored :
            /\ RecordOf(db_file'.videos, id) = RecordOf(db_file.videos, id)
            /\ id \notin audit.errored =>
                    RecordOf(db_conn'.videos, id) = RecordOf(db_conn.videos, id) ]_vars

\* C21 (as claimed): while the listing of a run has yielded no identifier,
\* no step of the run changes the database, in the file or in the
\* connection; and a run that has ended with one identifier or more listed,
\* and was not interrupted, has added exactly one row to backup_runs.
C21_EmptyListingWritesNothing ==
    /\ [][ run_no' = run_no /\ video_ids' = <<>> =>
                /\ db_file' = db_file
                /\ db_conn' = db_conn
                /\ audit'.stored = 0 /\ audit'.recorded = 0 ]_vars
    /\ [](~Running /\ video_ids # <<>> /\ bpc # "interrupted" => audit.recorded = 1)

====
